---- MODULE Spec2Model ----
(***************************************************************************)
(* A model of RingSocket's TCP layer (src/src/rs_tcp.c), of the app-side   *)
(* send helpers (src/src/ringsocket_app_helper.h) and of the sleep/wake    *)
(* handshake built on the relaxed atomics of src/src/ringsocket_api.h.     *)
(*                                                                         *)
(* Three specifications share the module, one per subsystem:               *)
(*   SpecTcp   one peer slot of a worker thread: read_tcp, write_tcp and   *)
(*             handle_tcp_io with its bidirectional shutdown sequence      *)
(*   SpecWake  one consumer and its producers: ring publication, the       *)
(*             sleep flag and the eventfd                                  *)
(*   SpecSend  one app thread: the scratch buffer and the send primitives  *)
(* Each leaves the other subsystems' variables at their initial values.    *)
(***************************************************************************)
EXTENDS Integers, Sequences, FiniteSets, TLC

VARIABLES
    \* ---- TCP layer (rs_tcp.c) ----
    peer,        \* the slot's union rs_peer: the fields rs_tcp.c reads and writes
    slot_free,   \* the slot is on the worker's free list
    sock,        \* the kernel's state of the peer's socket
    errno,       \* the worker thread's errno
    fatal,       \* an RS_FATAL was returned: the process exits
    wbuf,        \* the message the caller of write_tcp is writing (retried as is)
    msg_active,  \* that message has not completed yet
    wire,        \* the bytes of that message the socket has accepted, in order
    call,        \* the last operation: its inputs, its result and what it did
    shutdown_c,  \* shutdown(fd, SHUT_WR) calls issued for the current peer
    peers_c,     \* peers accepted into the slot so far
    last_again,  \* which of the peer's I/O calls last returned RS_AGAIN
    \* ---- sleep/wake handshake (ringsocket_api.h atomics) ----
    mem,         \* shared memory: the io_pair writer cells and the sleep flag
    sbuf,        \* each thread's stores not yet visible to the other threads
    ring_writer, \* each producer's own ring->writer cursor
    queued,      \* the producer's update queue holds an entry for the ring
    reader,      \* the consumer's read cursor of each ring
    ppc,         \* each producer's position in its flush
    cpc,         \* the consumer's position in its park protocol
    eventfd,     \* the counter of the consumer's eventfd
    \* ---- app-side sends (ringsocket_app_helper.h) ----
    little_endian,  \* RS_IS_LITTLE_ENDIAN of the host
    src_worker_thread_i, \* the worker of the inbound event being handled
    src_peer_i,     \* the peer of that event
    scratch,        \* the scratch buffer's first wbuf_i bytes
    out_rings,      \* per worker: the records in its outbound ring, unread
    update_queue,   \* the ring updates enqueued and not yet flushed
    send_call,      \* the last send primitive called, and what rs_send returned
    w_call          \* the last rs_w_uint64 or rs_w_uint64_hton call

VARIABLES
    \* ---- one outbound ring, its producer (app) and its consumer (worker) ----
    out_ring,     \* the producer's struct rs_ring: buf, and writer as an offset
    ring_bufs,    \* the ring's buffers: where each is, its size, what is in it
    io_pair,      \* the shared cells outbound.writer and outbound.reader
    ring_reader,  \* the consumer's own reader cursor
    ring_count    \* bytes produced, published and consumed; cursor jumps

tcpVars == <<peer, slot_free, sock, errno, fatal, wbuf, msg_active, wire, call,
             shutdown_c, peers_c, last_again>>

wakeVars == <<mem, sbuf, ring_writer, queued, reader, ppc, cpc, eventfd>>

sendVars == <<little_endian, src_worker_thread_i, src_peer_i, scratch,
              out_rings, update_queue, send_call, w_call>>

ringVars == <<out_ring, ring_bufs, io_pair, ring_reader, ring_count>>

vars == <<tcpVars, wakeVars, sendVars, ringVars>>

\* What the steps of one subsystem leave alone.
notTcp == <<wakeVars, sendVars, ringVars>>
notWake == <<tcpVars, sendVars, ringVars>>
notSend == <<tcpVars, wakeVars, ringVars>>
notRing == <<tcpVars, wakeVars, sendVars>>

\* ------------------------------------------------------------------------
\* Bounds of the model
\* ------------------------------------------------------------------------
MaxLen == 3        \* longest message handed to write_tcp
MaxPeers == 2      \* peers accepted into the slot, one after the other
MaxDrain == 2      \* reads that return data during one shutdown drain
RbufSize == 2      \* rbuf_size handed to read_tcp
NProducers == 2    \* producers writing to the one consumer
MaxMsgs == 2       \* messages each producer writes into its ring
WorkerC == 2       \* conf->worker_c
MaxPeerI == 1      \* largest peer index of a worker
MaxScratch == 2    \* bytes appended to the scratch buffer before a send
MaxWsMsgSize == 65540  \* conf->max_ws_msg_size
MaxCids == 2       \* client ids handed to a multi-recipient primitive
RingBufSize == 4   \* conf->outbound_ring_buf_size
MaxRec == 2        \* bytes of the largest record reserved in the ring
MaxGrow == 1       \* times the ring is replaced by a larger buffer
MaxProduced == 8   \* bytes produced into the ring

Bytes == {"a", "b"}

\* ------------------------------------------------------------------------
\* rs_ret (ringsocket_api.h)
\* ------------------------------------------------------------------------
RS_OK == 0
RS_CLOSE_PEER == -1
RS_FATAL == -2
RS_AGAIN == -3

rs_ret == {RS_OK, RS_CLOSE_PEER, RS_FATAL, RS_AGAIN}

\* A guard that passes on only RS_FATAL.
RS_GUARD_OnlyFatal(ret) == ret = RS_FATAL

\* RS_GUARD(call): whether the guard returns the callee's result to the caller.
RS_GUARD(ret) == ret # RS_OK

\* ------------------------------------------------------------------------
\* The peer and the system calls
\* ------------------------------------------------------------------------
Mortality == {"LIVE", "SHUTDOWN_WRITE", "SHUTDOWN_READ", "DEAD"}
Layer == {"TCP", "TLS", "HTTP", "WS"}

\* memset(peer, 0, sizeof(union rs_peer)): every field zero. The zero values of
\* the enums are RS_MORTALITY_LIVE and RS_LAYER_TCP: a fresh slot is a new
\* peer at the TCP layer.
ZeroPeer ==
    [mortality |-> "LIVE", layer |-> "TCP", is_encrypted |-> FALSE,
     is_writing |-> FALSE, old_wsize |-> 0]

\* errno values: "0" is no error, EAGAIN would-block, the others any other
\* failure.
EAGAIN == "EAGAIN"
OtherErrnos == {"ECONNRESET"}

\* The truth value of a C expression of errno's type.
CTrue(e) == e # "0"

\* What read() or write() of at most n bytes may return: a count, or -1 with
\* errno set. A successful call leaves errno alone (errno "0" in the record).
SysResults(n) ==
    {[ret |-> k, errno |-> "0"] : k \in 0..n}
        \cup {[ret |-> -1, errno |-> e] : e \in {EAGAIN} \cup OtherErrnos}

\* errno after a system call with result r.
ErrnoAfter(e, r) == IF r.ret = -1 THEN r.errno ELSE e

Ev(ev, arg) == [ev |-> ev, arg |-> arg]
Callee(fn, ret) == [fn |-> fn, ret |-> ret]

NoSys == [ret |-> 0, errno |-> "0"]

NoCall ==
    [op |-> "none", ret |-> RS_OK, pre |-> ZeroPeer, sys |-> NoSys, rsize |-> 0,
     wsize |-> 0, log |-> <<>>, callees |-> <<>>, is_writing |-> <<>>]

\* ------------------------------------------------------------------------
\* read_tcp
\* ------------------------------------------------------------------------
\* read_tcp clearing is_writing on every failed read, not only on EAGAIN.
read_tcp_ClearsOnError(p, r) ==
    IF r.ret > 0
    THEN [peer |-> p, ret |-> RS_OK, rsize |-> r.ret]
    ELSE IF r.ret = 0
    THEN [peer |-> p, ret |-> RS_CLOSE_PEER, rsize |-> 0]
    ELSE [peer |-> [p EXCEPT !.is_writing = FALSE],
          ret |-> IF r.errno = EAGAIN THEN RS_AGAIN ELSE RS_CLOSE_PEER,
          rsize |-> 0]

\* r is what read(peer->socket_fd, rbuf, rbuf_size) returned.
read_tcp(p, r) ==
    IF r.ret > 0
    THEN [peer |-> p, ret |-> RS_OK, rsize |-> r.ret]
    ELSE IF r.ret = 0
    THEN [peer |-> p, ret |-> RS_CLOSE_PEER, rsize |-> 0]
    ELSE IF r.errno = EAGAIN
    THEN [peer |-> [p EXCEPT !.is_writing = FALSE], ret |-> RS_AGAIN,
          rsize |-> 0]
    ELSE [peer |-> p, ret |-> RS_CLOSE_PEER, rsize |-> 0]

\* ------------------------------------------------------------------------
\* write_tcp
\* ------------------------------------------------------------------------
\* size_t remaining_wsize = wbuf_size - peer->old_wsize;
remaining_wsize(p, buf) == Len(buf) - p.old_wsize

\* write() handed the start of the buffer on every call.
write_accepted_FromStart(p, buf, r) ==
    IF r.ret > 0 THEN SubSeq(buf, 1, r.ret) ELSE <<>>

\* The bytes write(fd, wbuf + old_wsize, remaining_wsize) hands to the socket,
\* of which the socket accepts the first r.ret.
write_accepted(p, buf, r) ==
    IF r.ret > 0
    THEN SubSeq(buf, p.old_wsize + 1, p.old_wsize + r.ret)
    ELSE <<>>

\* r is what write() returned; e is errno after it. `if (errno = EAGAIN)`
\* assigns EAGAIN to errno and tests the assigned value.
write_tcp(p, buf, r, e) ==
    IF r.ret > 0
    THEN IF r.ret = remaining_wsize(p, buf)
         THEN [peer |-> [p EXCEPT !.old_wsize = 0], ret |-> RS_OK, errno |-> e]
         ELSE [peer |-> [p EXCEPT !.old_wsize = @ + r.ret,
                                   !.is_writing = TRUE],
               ret |-> RS_AGAIN, errno |-> e]
    ELSE IF CTrue(EAGAIN)
    THEN [peer |-> [p EXCEPT !.is_writing = TRUE], ret |-> RS_AGAIN,
          errno |-> EAGAIN]
    ELSE [peer |-> p, ret |-> RS_CLOSE_PEER, errno |-> EAGAIN]

\* ------------------------------------------------------------------------
\* handle_tcp_io and its callees. A context c carries the peer, the socket,
\* the slot, errno, the result of the last callee (ret), and the record of
\* what was done: log (system calls and assignments), callees (results) and
\* is_writing (the peer's flag as each callee returned).
\* ------------------------------------------------------------------------
Ctx(p, s, e) ==
    [peer |-> p, sock |-> s, slot_free |-> FALSE, errno |-> e, ret |-> RS_OK,
     log |-> <<>>, callees |-> <<>>, is_writing |-> <<>>, shutdowns |-> 0]

\* peer->mortality = m
SetMortality(c, m) ==
    [c EXCEPT !.peer.mortality = m, !.log = Append(@, Ev("mortality", m))]

\* A system call was made, with outcome arg.
Sys(c, ev, arg) == [c EXCEPT !.log = Append(@, Ev(ev, arg))]

\* Callee fn returns ret to handle_tcp_io.
Return(c, fn, ret) ==
    [c EXCEPT !.ret = ret, !.callees = Append(@, Callee(fn, ret)),
              !.is_writing = Append(@, c.peer.is_writing)]

\* shutdown(peer->socket_fd, SHUT_WR)
SysShutdown(c, shut_ok) ==
    IF shut_ok
    THEN [Sys(c, "shutdown", "ok") EXCEPT !.sock = "shut_wr",
                                          !.shutdowns = @ + 1]
    ELSE [Sys(c, "shutdown", "fail") EXCEPT !.errno = "ENOTCONN",
                                            !.shutdowns = @ + 1]

\* The mortality advanced before the result of shutdown() is looked at.
write_bidirectional_tcp_shutdown_Early(c, shut_ok) ==
    LET d == SetMortality(SysShutdown(c, shut_ok), "SHUTDOWN_READ")
    IN  IF ~shut_ok
        THEN Return(d, "write_shutdown", RS_FATAL)
        ELSE Return(d, "write_shutdown", RS_OK)

write_bidirectional_tcp_shutdown(c, shut_ok) ==
    LET d == SysShutdown(c, shut_ok)
    IN  IF ~shut_ok
        THEN Return(d, "write_shutdown", RS_FATAL)
        ELSE Return(SetMortality(d, "SHUTDOWN_READ"), "write_shutdown", RS_OK)

\* The do-while loop: n reads that return data, then the read that ends the
\* loop with result r (r.ret <= 0).
SysDrain(c, n, r) ==
    LET reads == [i \in 1..n |-> Ev("read", "data")]
        last == IF r.ret = 0 THEN "0"
                ELSE IF r.errno = EAGAIN THEN "EAGAIN" ELSE "error"
    IN  [c EXCEPT !.log = @ \o reads \o <<Ev("read", last)>>,
                  !.errno = ErrnoAfter(@, r)]

\* The drain taking a read that would block for the end of the stream.
read_bidirectional_tcp_shutdown_DeadOnAgain(c, n, r) ==
    LET d == SysDrain(c, n, r)
    IN  Return(SetMortality(d, "DEAD"), "read_shutdown", RS_CLOSE_PEER)

\* The drain leaving is_writing as it was when the read would block.
read_bidirectional_tcp_shutdown_KeepsIsWriting(c, n, r) ==
    LET d == SysDrain(c, n, r)
    IN  IF r.ret = 0
        THEN Return(SetMortality(d, "DEAD"), "read_shutdown", RS_CLOSE_PEER)
        ELSE IF r.errno = EAGAIN
        THEN Return(d, "read_shutdown", RS_AGAIN)
        ELSE Return(SetMortality(d, "DEAD"), "read_shutdown", RS_CLOSE_PEER)

read_bidirectional_tcp_shutdown(c, n, r) ==
    LET d == SysDrain(c, n, r)
    IN  IF r.ret = 0
        THEN Return(SetMortality(d, "DEAD"), "read_shutdown", RS_CLOSE_PEER)
        ELSE IF r.errno = EAGAIN
        THEN Return([d EXCEPT !.peer.is_writing = FALSE], "read_shutdown",
                    RS_AGAIN)
        ELSE Return(SetMortality(d, "DEAD"), "read_shutdown", RS_CLOSE_PEER)

\* case RS_MORTALITY_LIVE: a new peer. tls is init_tls_session()'s result.
tcp_case_live(c, tls) ==
    IF c.peer.is_encrypted
    THEN LET d == Return([Sys(c, "layer", "TLS") EXCEPT !.peer.layer = "TLS"],
                         "init_tls_session", tls)
         IN  IF RS_GUARD(d.ret) THEN d ELSE [d EXCEPT !.ret = RS_OK]
    ELSE [Sys(c, "layer", "HTTP") EXCEPT !.peer.layer = "HTTP", !.ret = RS_OK]

\* After the switch: close(), memset(), free_peer_slot(), return RS_OK.
tcp_close_peer(c, close_ok) ==
    LET closed == [Sys(c, "close", IF close_ok THEN "ok" ELSE "fail")
                      EXCEPT !.sock = "closed",
                             !.errno = IF close_ok THEN @ ELSE "EIO"]
        zeroed == [Sys(closed, "memset", "0") EXCEPT !.peer = ZeroPeer]
        freed == [Sys(zeroed, "free_peer_slot", "peer_i")
                     EXCEPT !.slot_free = TRUE]
    IN  [freed EXCEPT !.ret = RS_OK]

\* The inner switch without its RS_AGAIN case: every result but RS_FATAL
\* goes on to close the peer.
tcp_read_shutdown_switch_NoAgain(ret) ==
    IF ret = RS_FATAL THEN [return |-> TRUE, ret |-> RS_FATAL]
    ELSE [return |-> FALSE, ret |-> RS_OK]

\* The inner switch returning on every result: a drain that ended leaves the
\* peer DEAD and unclosed.
tcp_read_shutdown_switch_NoBreak(ret) ==
    IF ret = RS_FATAL THEN [return |-> TRUE, ret |-> RS_FATAL]
    ELSE [return |-> TRUE, ret |-> RS_OK]

\* The inner switch on read_bidirectional_tcp_shutdown()'s result: what
\* handle_tcp_io returns at once, or "break" to go on to close the peer.
tcp_read_shutdown_switch(ret) ==
    IF ret = RS_AGAIN THEN [return |-> TRUE, ret |-> RS_OK]
    ELSE IF ret = RS_FATAL THEN [return |-> TRUE, ret |-> RS_FATAL]
    ELSE [return |-> FALSE, ret |-> RS_OK]

\* case RS_MORTALITY_SHUTDOWN_READ, and the fall-through to the close.
tcp_case_shutdown_read(c, in) ==
    LET d == read_bidirectional_tcp_shutdown(c, in.drain_n, in.drain_end)
        s == tcp_read_shutdown_switch(d.ret)
    IN  IF s.return THEN [d EXCEPT !.ret = s.ret]
                    ELSE tcp_close_peer(d, in.close_ok)

\* The write step returning instead of falling through to the read step.
tcp_case_shutdown_write_NoFallThrough(c, in) ==
    LET d == write_bidirectional_tcp_shutdown(c, in.shut_ok)
    IN  IF RS_GUARD(d.ret) THEN d ELSE [d EXCEPT !.ret = RS_OK]

\* case RS_MORTALITY_SHUTDOWN_WRITE, and the fall-through to the read step.
tcp_case_shutdown_write(c, in) ==
    LET d == write_bidirectional_tcp_shutdown(c, in.shut_ok)
    IN  IF RS_GUARD(d.ret) THEN d
                           ELSE tcp_case_shutdown_read(d, in)

handle_tcp_io(c, in) ==
    CASE c.peer.mortality = "LIVE" -> tcp_case_live(c, in.tls)
      [] c.peer.mortality = "SHUTDOWN_WRITE" -> tcp_case_shutdown_write(c, in)
      [] c.peer.mortality = "SHUTDOWN_READ" -> tcp_case_shutdown_read(c, in)
      [] OTHER -> tcp_close_peer(c, in.close_ok)

\* The inputs of one handle_tcp_io invocation: what each callee and system
\* call it may reach returns.
TcpInputs ==
    [tls : rs_ret,
     shut_ok : BOOLEAN,
     drain_n : 0..MaxDrain,
     drain_end : {r \in SysResults(0) : TRUE},
     close_ok : BOOLEAN]

\* ------------------------------------------------------------------------
\* SpecTcp: the worker thread's operations on one peer slot
\* ------------------------------------------------------------------------
TcpIoCalls == {"read_tcp", "write_tcp", "read_shutdown"}

\* Which of read_tcp, write_tcp and read_bidirectional_tcp_shutdown most
\* recently returned RS_AGAIN for the peer, after the calls of callees were
\* made.
RECURSIVE LastAgain(_, _)
LastAgain(before, callees) ==
    IF callees = <<>> THEN before
    ELSE LET k == Head(callees)
         IN  LastAgain(IF k.fn \in TcpIoCalls /\ k.ret = RS_AGAIN THEN k.fn
                       ELSE before,
                       Tail(callees))

InitTcp ==
    /\ peer = ZeroPeer
    /\ slot_free = TRUE
    /\ sock = "none"
    /\ errno = "0"
    /\ fatal = FALSE
    /\ wbuf = <<>>
    /\ msg_active = FALSE
    /\ wire = <<>>
    /\ call = NoCall
    /\ shutdown_c = 0
    /\ peers_c = 0
    /\ last_again = "none"

\* The acceptor takes the slot from the free list for a new connection.
AcceptPeer ==
    /\ ~fatal
    /\ slot_free
    /\ peers_c < MaxPeers
    /\ \E enc \in BOOLEAN :
          peer' = [ZeroPeer EXCEPT !.is_encrypted = enc]
    /\ slot_free' = FALSE
    /\ sock' = "open"
    /\ peers_c' = peers_c + 1
    /\ shutdown_c' = 0
    /\ last_again' = "none"
    /\ msg_active' = FALSE
    /\ wbuf' = <<>>
    /\ wire' = <<>>
    /\ call' = [NoCall EXCEPT !.op = "accept"]
    /\ UNCHANGED <<errno, fatal>>
    /\ UNCHANGED notTcp

\* An event of a peer at the TCP layer, its system calls and callees
\* answering as the input in says.
HandleTcpIoOn(in) ==
    /\ ~fatal
    /\ ~slot_free
    /\ peer.layer = "TCP"
    /\ LET c == handle_tcp_io(Ctx(peer, sock, errno), in)
       IN  /\ peer' = c.peer
           /\ sock' = c.sock
           /\ slot_free' = c.slot_free
           /\ errno' = c.errno
           /\ fatal' = (c.ret = RS_FATAL)
           /\ shutdown_c' = shutdown_c + c.shutdowns
           /\ last_again' = IF c.slot_free THEN "none"
                            ELSE LastAgain(last_again, c.callees)
           /\ call' = [NoCall EXCEPT !.op = "handle_tcp_io",
                                     !.ret = c.ret,
                                     !.pre = peer,
                                     !.log = c.log,
                                     !.callees = c.callees,
                                     !.is_writing = c.is_writing]
    /\ msg_active' = FALSE
    /\ UNCHANGED <<wbuf, wire, peers_c>>
    /\ UNCHANGED notTcp

HandleTcpIo == \E in \in TcpInputs : HandleTcpIoOn(in)

\* A layer above TCP gives up on a live peer (a CLOSE_PEER result, a close
\* frame, a protocol error): mortality is escalated and the peer drops to
\* the TCP layer, where handle_tcp_io takes over.
LayerClosePeer ==
    /\ ~fatal
    /\ ~slot_free
    /\ peer.mortality = "LIVE"
    /\ peer.layer # "TCP"
    /\ peer' = [peer EXCEPT !.mortality = "SHUTDOWN_WRITE", !.layer = "TCP"]
    /\ msg_active' = FALSE
    /\ call' = [NoCall EXCEPT !.op = "layer_close", !.pre = peer]
    /\ UNCHANGED <<slot_free, sock, errno, fatal, wbuf, wire, shutdown_c,
                   peers_c, last_again>>
    /\ UNCHANGED notTcp

\* Plain-TCP I/O is done for live, unencrypted peers above the TCP layer.
DoesTcpIo ==
    /\ ~fatal
    /\ ~slot_free
    /\ peer.mortality = "LIVE"
    /\ peer.layer \in {"HTTP", "WS"}

ReadTcp ==
    /\ DoesTcpIo
    /\ \E r \in SysResults(RbufSize) :
          LET o == read_tcp(peer, r)
          IN  /\ peer' = o.peer
              /\ errno' = ErrnoAfter(errno, r)
              /\ call' = [NoCall EXCEPT !.op = "read_tcp",
                                        !.ret = o.ret,
                                        !.pre = peer,
                                        !.sys = r,
                                        !.rsize = o.rsize]
              /\ last_again' = LastAgain(last_again,
                                         <<Callee("read_tcp", o.ret)>>)
    /\ UNCHANGED <<slot_free, sock, fatal, wbuf, msg_active, wire, shutdown_c,
                   peers_c>>
    /\ UNCHANGED notTcp

\* The caller starts a new message once the previous one has completed.
NewMessage ==
    /\ DoesTcpIo
    /\ ~msg_active
    /\ \E n \in 0..MaxLen : \E buf \in [1..n -> Bytes] : wbuf' = buf
    /\ msg_active' = TRUE
    /\ wire' = <<>>
    /\ call' = [NoCall EXCEPT !.op = "new_message", !.pre = peer]
    /\ UNCHANGED <<peer, slot_free, sock, errno, fatal, shutdown_c, peers_c,
                   last_again>>
    /\ UNCHANGED notTcp

\* One write_tcp call for the message in progress, with the same buffer and
\* size as before.
WriteTcp ==
    /\ DoesTcpIo
    /\ msg_active
    /\ \E r \in SysResults(remaining_wsize(peer, wbuf)) :
          LET o == write_tcp(peer, wbuf, r, ErrnoAfter(errno, r))
              acc == write_accepted(peer, wbuf, r)
          IN  /\ peer' = o.peer
              /\ errno' = o.errno
              /\ wire' = wire \o acc
              /\ msg_active' = (o.ret = RS_AGAIN)
              /\ call' = [NoCall EXCEPT !.op = "write_tcp",
                                        !.ret = o.ret,
                                        !.pre = peer,
                                        !.sys = r,
                                        !.wsize = Len(acc)]
              /\ last_again' = LastAgain(last_again,
                                         <<Callee("write_tcp", o.ret)>>)
    /\ UNCHANGED <<slot_free, sock, fatal, wbuf, shutdown_c, peers_c>>
    /\ UNCHANGED notTcp

NextTcp ==
    \/ AcceptPeer
    \/ HandleTcpIo
    \/ LayerClosePeer
    \/ ReadTcp
    \/ NewMessage
    \/ WriteTcp

\* The peer is in the bidirectional shutdown that handle_tcp_io carries out.
ShuttingDown ==
    /\ ~slot_free
    /\ peer.layer = "TCP"
    /\ peer.mortality \in {"SHUTDOWN_WRITE", "SHUTDOWN_READ"}

\* handle_tcp_io where shutdown(SHUT_WR) does not fail.
HandleTcpIoShutdownOk ==
    \E in \in {i \in TcpInputs : i.shut_ok} : HandleTcpIoOn(in)

\* The readiness event at which the socket of a peer that is shutting down
\* reports the end of the stream or a read error: the read that ends the
\* drain loop returns 0, or -1 with an errno other than EAGAIN.
HandleTcpIoEndOfStream ==
    /\ ShuttingDown
    /\ \E in \in {i \in TcpInputs :
                    /\ i.shut_ok
                    /\ (i.drain_end.ret = 0 \/ i.drain_end.errno # EAGAIN)} :
          HandleTcpIoOn(in)

NextTcpShutdownOk ==
    \/ AcceptPeer
    \/ HandleTcpIoShutdownOk
    \/ LayerClosePeer
    \/ ReadTcp
    \/ NewMessage
    \/ WriteTcp

\* ------------------------------------------------------------------------
\* SpecWake: one consumer thread, its producers, and the memory between them
\*
\* RS_ATOMIC_STORE_RELAXED and RS_CASTED_ATOMIC_LOAD_RELAXED are
\* memory_order_relaxed accesses between compiler barriers: the compiler keeps
\* them in program order, the processor is not fenced. On the x86-64 (TSO)
\* targets the atomics are written for, a store waits in the storing thread's
\* store buffer, visible to that thread only, until it drains to memory, so
\* a later load of another location may be served from memory before it.
\* ------------------------------------------------------------------------
Producers == 1..NProducers
Consumer == 0
Threads == Producers \cup {Consumer}

\* Memory locations: the io_pair writer cell of each producer's ring, and the
\* consumer's sleep flag.
WriterCell(p) == p
SleepFlag == 0

\* A store that is visible to every thread at once, as a sequentially
\* consistent store (or one followed by a full fence) would be.
RS_ATOMIC_STORE_RELAXED_Fenced(t, loc, val) ==
    /\ sbuf' = sbuf
    /\ mem' = [mem EXCEPT ![loc] = val]

\* RS_ATOMIC_STORE_RELAXED(store, val) by thread t.
RS_ATOMIC_STORE_RELAXED(t, loc, val) ==
    /\ sbuf' = [sbuf EXCEPT ![t] = Append(@, [loc |-> loc, val |-> val])]
    /\ mem' = mem

\* RS_CASTED_ATOMIC_LOAD_RELAXED(store, val, cast) by thread t: the thread's
\* own latest pending store to the location, or else memory.
RS_CASTED_ATOMIC_LOAD_RELAXED(t, loc) ==
    LET own == {i \in DOMAIN sbuf[t] : sbuf[t][i].loc = loc}
    IN  IF own = {} THEN mem[loc]
        ELSE sbuf[t][CHOOSE i \in own : \A j \in own : j <= i].val

\* The processor drains the oldest store of thread t to memory.
DrainStore(t) ==
    /\ sbuf[t] # <<>>
    /\ mem' = [mem EXCEPT ![Head(sbuf[t]).loc] = Head(sbuf[t]).val]
    /\ sbuf' = [sbuf EXCEPT ![t] = Tail(@)]
    /\ UNCHANGED <<ring_writer, queued, reader, ppc, cpc, eventfd>>
    /\ UNCHANGED notWake

\* A system call on the eventfd takes the eventfd's lock in the kernel, a
\* locked instruction: the calling thread's store buffer is empty by then.
SyscallFence(t) == sbuf[t] = <<>>

InitWake ==
    /\ mem = [l \in {SleepFlag} \cup {WriterCell(p) : p \in Producers} |-> 0]
    /\ sbuf = [t \in Threads |-> <<>>]
    /\ ring_writer = [p \in Producers |-> 0]
    /\ queued = [p \in Producers |-> FALSE]
    /\ reader = [p \in Producers |-> 0]
    /\ ppc = [p \in Producers |-> "idle"]
    /\ cpc = "drain"
    /\ eventfd = 0

\* The producer writes a message into its ring and enqueues a ring update
\* (rs_send: the record, then rs_enqueue_ring_update()).
ProducerWrite(p) ==
    /\ ppc[p] = "idle"
    /\ ring_writer[p] < MaxMsgs
    /\ ring_writer' = [ring_writer EXCEPT ![p] = @ + 1]
    /\ queued' = [queued EXCEPT ![p] = TRUE]
    /\ UNCHANGED <<mem, sbuf, reader, ppc, cpc, eventfd>>
    /\ UNCHANGED notWake

\* Flush, step 1: relaxed-store the new writer cursor to the shared cell.
FlushStore(p) ==
    /\ ppc[p] = "idle"
    /\ queued[p]
    /\ RS_ATOMIC_STORE_RELAXED(p, WriterCell(p), ring_writer[p])
    /\ queued' = [queued EXCEPT ![p] = FALSE]
    /\ ppc' = [ppc EXCEPT ![p] = "load"]
    /\ UNCHANGED <<ring_writer, reader, cpc, eventfd>>
    /\ UNCHANGED notWake

\* Flush, step 2: relaxed-load the consumer's sleep flag.
FlushLoad(p) ==
    /\ ppc[p] = "load"
    /\ ppc' = [ppc EXCEPT ![p] =
                  IF RS_CASTED_ATOMIC_LOAD_RELAXED(p, SleepFlag) = 1
                  THEN "wake" ELSE "idle"]
    /\ UNCHANGED <<mem, sbuf, ring_writer, queued, reader, cpc, eventfd>>
    /\ UNCHANGED notWake

\* Flush, step 3: the flag was set, write to the consumer's eventfd.
FlushWake(p) ==
    /\ ppc[p] = "wake"
    /\ SyscallFence(p)
    /\ eventfd' = eventfd + 1
    /\ ppc' = [ppc EXCEPT ![p] = "idle"]
    /\ UNCHANGED <<mem, sbuf, ring_writer, queued, reader, cpc>>
    /\ UNCHANGED notWake

\* What the consumer sees published and unread in ring p.
SeesData(p) == RS_CASTED_ATOMIC_LOAD_RELAXED(Consumer, WriterCell(p)) > reader[p]

\* Park, step 1: drain the rings until all are empty.
ConsumerConsume(p) ==
    /\ cpc = "drain"
    /\ SeesData(p)
    /\ reader' = [reader EXCEPT
                     ![p] = RS_CASTED_ATOMIC_LOAD_RELAXED(Consumer,
                                                          WriterCell(p))]
    /\ UNCHANGED <<mem, sbuf, ring_writer, queued, ppc, cpc, eventfd>>
    /\ UNCHANGED notWake

ConsumerDrained ==
    /\ cpc = "drain"
    /\ \A p \in Producers : ~SeesData(p)
    /\ cpc' = "announce"
    /\ UNCHANGED <<mem, sbuf, ring_writer, queued, reader, ppc, eventfd>>
    /\ UNCHANGED notWake

\* Park, step 2: relaxed-store sleep flag = true.
ConsumerAnnounce ==
    /\ cpc = "announce"
    /\ RS_ATOMIC_STORE_RELAXED(Consumer, SleepFlag, 1)
    /\ cpc' = "recheck"
    /\ UNCHANGED <<ring_writer, queued, reader, ppc, eventfd>>
    /\ UNCHANGED notWake

\* Park, step 3: re-check the rings; if any has data, clear the flag and
\* continue.
ConsumerRecheckData ==
    /\ cpc = "recheck"
    /\ \E p \in Producers : SeesData(p)
    /\ RS_ATOMIC_STORE_RELAXED(Consumer, SleepFlag, 0)
    /\ cpc' = "drain"
    /\ UNCHANGED <<ring_writer, queued, reader, ppc, eventfd>>
    /\ UNCHANGED notWake

ConsumerRecheckEmpty ==
    /\ cpc = "recheck"
    /\ \A p \in Producers : ~SeesData(p)
    /\ cpc' = "park"
    /\ UNCHANGED <<mem, sbuf, ring_writer, queued, reader, ppc, eventfd>>
    /\ UNCHANGED notWake

\* Park, step 4: read the eventfd, which blocks while its counter is 0.
ConsumerPark ==
    /\ cpc = "park"
    /\ SyscallFence(Consumer)
    /\ cpc' = "blocked"
    /\ UNCHANGED <<mem, sbuf, ring_writer, queued, reader, ppc, eventfd>>
    /\ UNCHANGED notWake

\* The read returns: clear the flag and continue.
ConsumerWake ==
    /\ cpc = "blocked"
    /\ eventfd > 0
    /\ eventfd' = 0
    /\ RS_ATOMIC_STORE_RELAXED(Consumer, SleepFlag, 0)
    /\ cpc' = "drain"
    /\ UNCHANGED <<ring_writer, queued, reader, ppc>>
    /\ UNCHANGED notWake

NextWake ==
    \/ \E p \in Producers : ProducerWrite(p)
    \/ \E p \in Producers : FlushStore(p)
    \/ \E p \in Producers : FlushLoad(p)
    \/ \E p \in Producers : FlushWake(p)
    \/ \E p \in Producers : ConsumerConsume(p)
    \/ ConsumerDrained
    \/ ConsumerAnnounce
    \/ ConsumerRecheckData
    \/ ConsumerRecheckEmpty
    \/ ConsumerPark
    \/ ConsumerWake
    \/ \E t \in Threads : DrainStore(t)

\* ------------------------------------------------------------------------
\* SpecSend: an app thread's scratch buffer and send primitives
\* ------------------------------------------------------------------------
UINT16_MAX == 65535
\* The largest payload size that fits the length field of the second header
\* byte.
Len7Max == 125

Workers == 0..(WorkerC - 1)
PeerIs == 0..MaxPeerI

\* Unsigned integers wider than a byte are kept as their bytes, least
\* significant first (values below 2^31 only).
LEBytes(v, n) ==
    [i \in 1..n |-> IF i = 1 THEN v % 256
                    ELSE IF i = 2 THEN (v \div 256) % 256
                    ELSE IF i = 3 THEN (v \div 65536) % 256
                    ELSE IF i = 4 THEN v \div 16777216
                    ELSE 0]

Reverse(w) == [i \in 1..Len(w) |-> w[Len(w) + 1 - i]]

\* __builtin_bswap16/32/64
bswap(w) == Reverse(w)

\* RS_NTOH16/32/64, RS_HTON16/32/64: reverse the bytes if the machine is
\* little-endian, else do nothing.
RS_NTOH(w) == IF little_endian THEN bswap(w) ELSE w
RS_HTON(w) == RS_NTOH(w)

\* *((uintN_t *) ptr) = w: the bytes that end up in memory, in address order.
HostStore(w) == IF little_endian THEN w ELSE Reverse(w)

\* RS_W_HTON16/64(ptr, v), v an n-byte unsigned integer.
RS_W_HTON(v, n) == HostStore(RS_HTON(LEBytes(v, n)))

\* The two readings on a machine that stores the high half first, whatever
\* little_endian says.
U64FromWords_HiFirst(w0, w1) == [hi |-> w0, lo |-> w1]
WordsOfU64_HiFirst(u) == <<u.hi, u.lo>>

\* A uint64_t is kept as its two 32-bit halves. Read from (or written to)
\* memory through a uint32_t pointer, it is the words w0 at the lower address
\* and w1 at the higher one.
U64FromWords(w0, w1) ==
    IF little_endian THEN [hi |-> w1, lo |-> w0] ELSE [hi |-> w0, lo |-> w1]
WordsOfU64(u) ==
    IF little_endian THEN <<u.lo, u.hi>> ELSE <<u.hi, u.lo>>

\* rs_get_client_id(): the uint32_t pair {src_worker_thread_i, src_peer_i}
\* read as one uint64_t.
rs_get_client_id(worker_i, peer_i) == U64FromWords(worker_i, peer_i)

\* The client ids of the peers of this process's workers.
ClientIds == {rs_get_client_id(w, q) : w \in Workers, q \in PeerIs}

\* The sizes handed to a send: with up to MaxScratch bytes of scratch they
\* put the payload size on each side of every edge of the length encodings
\* and of max_ws_msg_size.
UserSizes ==
    {0, Len7Max - 3, Len7Max - 2, Len7Max + 1,
     UINT16_MAX - 5, UINT16_MAX - 4, UINT16_MAX + 1,
     MaxWsMsgSize - 1, MaxWsMsgSize + 1}

\* A struct rs whose scratch buffer was reset before the send.
Rs_ResetFirst(sc, rings, queue) ==
    [scratch |-> <<>>, out_rings |-> rings, update_queue |-> queue,
     rets |-> <<>>, accessed |-> <<>>, stray |-> "none", crashed |-> FALSE]

\* The app thread's struct rs, as far as the sends use it, with the record of
\* a call: rets (what each rs_send returned), accessed (the index of each
\* outbound_rings and io_pairs element used), stray (what comes of an access
\* past the end of those arrays) and crashed (the process was killed).
Rs(sc, rings, queue) ==
    [scratch |-> sc, out_rings |-> rings, update_queue |-> queue,
     rets |-> <<>>, accessed |-> <<>>, stray |-> "none", crashed |-> FALSE]

\* outbound_rings and io_pairs hold worker_c elements each. Using element
\* worker_i >= worker_c is undefined: the process is killed at the access,
\* or the memory past the arrays is taken for a ring and an io pair, and then
\* either rs_prepare_ring_write() fails on it, or the record is written to
\* wherever its writer points and an update for worker_i is enqueued.
StrayOutcomes == {"killed", "fatal", "written"}

rs_send_stray(n, worker_i) ==
    LET m == [n EXCEPT !.accessed = Append(@, worker_i)]
    IN  CASE n.stray = "killed" -> [m EXCEPT !.crashed = TRUE]
          [] n.stray = "fatal" -> [m EXCEPT !.rets = Append(@, RS_FATAL)]
          [] OTHER -> [m EXCEPT !.update_queue = Append(@, worker_i),
                                !.rets = Append(@, RS_OK)]

\* The bytes the WebSocket header adds to msg_size.
ws_header_size(payload_size) ==
    IF payload_size > UINT16_MAX THEN 10
    ELSE IF payload_size > Len7Max THEN 4
    ELSE 2

\* The header bytes written after the recipients: the opcode byte, then the
\* extended length chosen by msg_size.
ws_header(msg_size, payload_size, is_utf8) ==
    <<IF is_utf8 THEN 129 ELSE 130>>
        \o (IF msg_size > UINT16_MAX
            THEN <<127>> \o RS_W_HTON(payload_size, 8)
            ELSE IF msg_size > Len7Max
            THEN <<126>> \o RS_W_HTON(payload_size % 65536, 2)
            ELSE <<>>)

\* rs_send. recipients is the sequence of the recipient_c ids.
rs_send(n, worker_i, outbound_kind, recipients, is_utf8, size) ==
    LET payload_size == Len(n.scratch) + size
        msg_size == payload_size + ws_header_size(payload_size) + 1
        recipient_c == Len(recipients)
        count == IF recipient_c > 1 THEN <<recipient_c>> ELSE <<>>
        ws == ws_header(msg_size, payload_size, is_utf8)
        rec == [kind |-> outbound_kind,
                count |-> count,
                recipients |-> recipients,
                ws |-> ws,
                scratch |-> n.scratch,
                user_size |-> size,
                reserved |-> msg_size,
                written |-> 1 + 4 * Len(count) + 4 * recipient_c + Len(ws)
                              + payload_size]
    IN  IF n.crashed THEN n
        ELSE IF payload_size > MaxWsMsgSize
        THEN [n EXCEPT !.rets = Append(@, RS_FATAL)]
        ELSE IF worker_i \notin Workers
        THEN rs_send_stray(n, worker_i)
        ELSE [n EXCEPT !.out_rings[worker_i] = Append(@, rec),
                       !.update_queue = Append(@, worker_i),
                       !.rets = Append(@, RS_OK),
                       !.accessed = Append(@, worker_i)]

rs_to_single(n, is_utf8, client_id, size) ==
    LET u32 == WordsOfU64(client_id)
        m == rs_send(n, u32[1], "SINGLE", <<u32[2]>>, is_utf8, size)
    IN  IF m.crashed THEN m ELSE [m EXCEPT !.scratch = <<>>]

rs_to_cur(n, is_utf8, size) ==
    [rs_send(n, src_worker_thread_i, "SINGLE", <<src_peer_i>>, is_utf8, size)
        EXCEPT !.scratch = <<>>]

RECURSIVE rs_to_every_loop(_, _, _, _)
rs_to_every_loop(n, i, is_utf8, size) ==
    IF i < WorkerC
    THEN rs_to_every_loop(rs_send(n, i, "EVERY", <<>>, is_utf8, size),
                          i + 1, is_utf8, size)
    ELSE n

\* A broadcast that leaves out worker 0.
rs_to_every_FromSecond(n, is_utf8, size) ==
    [rs_to_every_loop(n, 1, is_utf8, size) EXCEPT !.scratch = <<>>]

rs_to_every(n, is_utf8, size) ==
    [rs_to_every_loop(n, 0, is_utf8, size) EXCEPT !.scratch = <<>>]

\* The recipients of a worker collected last to first.
cur_clients_Reversed(client_ids, i) ==
    LET of_i == SelectSeq(client_ids, LAMBDA c : WordsOfU64(c)[1] = i)
    IN  [j \in 1..Len(of_i) |-> WordsOfU64(of_i[Len(of_i) + 1 - j])[2]]

\* cur_clients[0..cur_client_c) of the rs_to_multi and
\* rs_to_every_except_multi loops for worker i: of each id whose first
\* uint32_t is i, the second one, in the order of client_ids.
cur_clients(client_ids, i) ==
    LET of_i == SelectSeq(client_ids, LAMBDA c : WordsOfU64(c)[1] = i)
    IN  [j \in 1..Len(of_i) |-> WordsOfU64(of_i[j])[2]]

RECURSIVE rs_to_multi_loop(_, _, _, _, _)
rs_to_multi_loop(n, i, is_utf8, client_ids, size) ==
    IF i < WorkerC
    THEN LET cur == cur_clients(client_ids, i)
             m == IF Len(cur) = 0 THEN n
                  ELSE IF Len(cur) = 1
                  THEN rs_send(n, i, "SINGLE", cur, is_utf8, size)
                  ELSE rs_send(n, i, "ARRAY", cur, is_utf8, size)
         IN  rs_to_multi_loop(m, i + 1, is_utf8, client_ids, size)
    ELSE n

rs_to_multi(n, is_utf8, client_ids, size) ==
    [rs_to_multi_loop(n, 0, is_utf8, client_ids, size) EXCEPT !.scratch = <<>>]

\* The loop shared by rs_to_every_except_single (the id's two uint32_t) and
\* rs_to_every_except_cur (src_worker_thread_i, src_peer_i).
RECURSIVE rs_to_every_except_one_loop(_, _, _, _, _, _)
rs_to_every_except_one_loop(n, i, is_utf8, worker_i, peer_i, size) ==
    IF i < WorkerC
    THEN LET m == IF i = worker_i
                  THEN rs_send(n, i, "EVERY_EXCEPT_SINGLE", <<peer_i>>,
                               is_utf8, size)
                  ELSE rs_send(n, i, "EVERY", <<>>, is_utf8, size)
         IN  rs_to_every_except_one_loop(m, i + 1, is_utf8, worker_i, peer_i,
                                         size)
    ELSE n

rs_to_every_except_single(n, is_utf8, client_id, size) ==
    LET u32 == WordsOfU64(client_id)
    IN  [rs_to_every_except_one_loop(n, 0, is_utf8, u32[1], u32[2], size)
            EXCEPT !.scratch = <<>>]

RECURSIVE rs_to_every_except_multi_loop(_, _, _, _, _)
rs_to_every_except_multi_loop(n, i, is_utf8, client_ids, size) ==
    IF i < WorkerC
    THEN LET cur == cur_clients(client_ids, i)
             m == IF Len(cur) = 0
                  THEN rs_send(n, i, "EVERY", <<>>, is_utf8, size)
                  ELSE IF Len(cur) = 1
                  THEN rs_send(n, i, "EVERY_EXCEPT_SINGLE", cur, is_utf8,
                               size)
                  ELSE rs_send(n, i, "EVERY_EXCEPT_ARRAY", cur, is_utf8,
                               size)
         IN  rs_to_every_except_multi_loop(m, i + 1, is_utf8, client_ids,
                                           size)
    ELSE n

rs_to_every_except_multi(n, is_utf8, client_ids, size) ==
    [rs_to_every_except_multi_loop(n, 0, is_utf8, client_ids, size)
        EXCEPT !.scratch = <<>>]

rs_to_every_except_cur(n, is_utf8, size) ==
    [rs_to_every_except_one_loop(n, 0, is_utf8, src_worker_thread_i,
                                 src_peer_i, size)
        EXCEPT !.scratch = <<>>]

\* The ids handed to the primitives that skip what is not theirs: the ids of
\* the peers of this process's workers and one id of no worker.
MultiIds == ClientIds \cup {rs_get_client_id(WorkerC, 0)}

\* The id arrays handed to the multi-recipient primitives.
ClientIdArrays == UNION {[1..c -> MultiIds] : c \in 1..MaxCids}

\* The sizes handed to the multi-recipient primitives: one that fits and one
\* that does not.
MultiSizes == {0, MaxWsMsgSize + 1}

\* ------------------------------------------------------------------------
\* rs_w_uint64 and rs_w_uint64_hton. A uint64_t argument is kept as its eight
\* bytes, least significant first.
\* ------------------------------------------------------------------------
\* 0x0807060504030201, 0x04030201 (a value below 2^32), and 0.
U64Values ==
    {<<1, 2, 3, 4, 5, 6, 7, 8>>,
     <<1, 2, 3, 4, 0, 0, 0, 0>>,
     <<0, 0, 0, 0, 0, 0, 0, 0>>}

\* The conversion of a uint64_t argument to a uint32_t parameter: the low 32
\* bits.
AsUint32(w) == SubSeq(w, 1, 4)

\* The conversion of a uint32_t to the uint64_t that is stored.
ZeroExtend(w) == w \o <<0, 0, 0, 0>>

\* rs_w_uint64(n, uint32_t u64): *((uint64_t *) (wbuf + wbuf_i)) = u64;
\* wbuf_i += 8.
rs_w_uint64(sc, u64) == sc \o HostStore(ZeroExtend(AsUint32(u64)))

\* rs_w_uint64_hton(n, uint64_t u64): rs_w_uint64(n, RS_HTON64(u64)).
rs_w_uint64_hton(sc, u64) == rs_w_uint64(sc, RS_HTON(u64))

NoW == [op |-> "none", u64 |-> <<>>, scratch |-> <<>>]

\* The values a function declared `inline void` hands to its caller: none.
Void == <<>>

NoSend ==
    [op |-> "none", is_utf8 |-> FALSE, size |-> 0, scratch_len |-> 0,
     rets |-> <<>>, ret |-> Void, scratch |-> <<>>, scratch_after |-> <<>>,
     src_worker |-> 0, src_peer |-> 0, cids |-> <<>>, accessed |-> <<>>,
     crashed |-> FALSE]

InitSend ==
    /\ little_endian \in BOOLEAN
    /\ src_worker_thread_i = 0
    /\ src_peer_i = 0
    /\ scratch = <<>>
    /\ out_rings = [w \in Workers |-> <<>>]
    /\ update_queue = <<>>
    /\ send_call = NoSend
    /\ w_call = NoW

\* The app thread handles one inbound message at a time: its callback appends
\* to the scratch buffer and calls one send primitive, and the workers read
\* what that wrote before the next callback runs.
CallbackIdle ==
    /\ send_call.op = "none"
    /\ \A w \in Workers : out_rings[w] = <<>>

\* The model follows scratch buffers of more than MaxScratch bytes no
\* further.
MaySend ==
    /\ CallbackIdle
    /\ Len(scratch) <= MaxScratch

\* The app thread takes an inbound message of some peer of some worker off a
\* ring and makes that peer the current one before calling the app's callback.
InboundMessage ==
    /\ MaySend
    /\ \E w \in Workers, q \in PeerIs :
          /\ <<w, q>> # <<src_worker_thread_i, src_peer_i>>
          /\ src_worker_thread_i' = w
          /\ src_peer_i' = q
    /\ UNCHANGED <<little_endian, scratch, out_rings, update_queue,
                   send_call, w_call>>
    /\ UNCHANGED notSend

\* rs_w_uint8(): one more byte in the scratch buffer.
RsWUint8 ==
    /\ MaySend
    /\ Len(scratch) < MaxScratch
    /\ \E u8 \in Bytes : scratch' = Append(scratch, u8)
    /\ UNCHANGED <<little_endian, src_worker_thread_i, src_peer_i, out_rings,
                   update_queue, send_call, w_call>>
    /\ UNCHANGED notSend

\* rs_w_uint64() and rs_w_uint64_hton(): eight more bytes in the scratch
\* buffer.
RsWUint64 ==
    /\ MaySend
    /\ \E u64 \in U64Values :
          /\ scratch' = rs_w_uint64(scratch, u64)
          /\ w_call' = [op |-> "rs_w_uint64", u64 |-> u64,
                        scratch |-> scratch]
    /\ UNCHANGED <<little_endian, src_worker_thread_i, src_peer_i, out_rings,
                   update_queue, send_call>>
    /\ UNCHANGED notSend

RsWUint64Hton ==
    /\ MaySend
    /\ \E u64 \in U64Values :
          /\ scratch' = rs_w_uint64_hton(scratch, u64)
          /\ w_call' = [op |-> "rs_w_uint64_hton", u64 |-> u64,
                        scratch |-> scratch]
    /\ UNCHANGED <<little_endian, src_worker_thread_i, src_peer_i, out_rings,
                   update_queue, send_call>>
    /\ UNCHANGED notSend

\* The state after a send primitive, called with the client ids cids, that
\* left n. send_call keeps the arguments, what each rs_send call returned
\* (rets), what the primitive handed to the app (ret), and the scratch buffer
\* and the current peer as they were at the call.
Sent(n, op, is_utf8, cids, size) ==
    /\ scratch' = n.scratch
    /\ out_rings' = n.out_rings
    /\ update_queue' = n.update_queue
    /\ send_call' = [op |-> op, is_utf8 |-> is_utf8, size |-> size,
                     scratch_len |-> Len(scratch), rets |-> n.rets,
                     ret |-> Void, scratch |-> scratch,
                     scratch_after |-> n.scratch,
                     src_worker |-> src_worker_thread_i,
                     src_peer |-> src_peer_i, cids |-> cids,
                     accessed |-> n.accessed, crashed |-> n.crashed]
    /\ UNCHANGED <<little_endian, src_worker_thread_i, src_peer_i, w_call>>
    /\ UNCHANGED notSend

RsToSingle ==
    /\ MaySend
    /\ \E is_utf8 \in BOOLEAN, size \in UserSizes, client_id \in ClientIds :
          Sent(rs_to_single(Rs(scratch, out_rings, update_queue), is_utf8,
                            client_id, size),
               "rs_to_single", is_utf8, <<client_id>>, size)

\* rs_to_single with a client id that is not the id of a peer of this
\* process: its worker half is worker_c.
RsToSingleUnknownId ==
    /\ MaySend
    /\ \E is_utf8 \in {FALSE}, size \in MultiSizes,
          client_id \in MultiIds \ ClientIds, stray \in StrayOutcomes :
          Sent(rs_to_single([Rs(scratch, out_rings, update_queue)
                                EXCEPT !.stray = stray],
                            is_utf8, client_id, size),
               "rs_to_single", is_utf8, <<client_id>>, size)

RsToCur ==
    /\ MaySend
    /\ \E is_utf8 \in BOOLEAN, size \in UserSizes :
          Sent(rs_to_cur(Rs(scratch, out_rings, update_queue), is_utf8, size),
               "rs_to_cur", is_utf8, <<>>, size)

RsToEvery ==
    /\ MaySend
    /\ \E is_utf8 \in BOOLEAN, size \in UserSizes :
          Sent(rs_to_every(Rs(scratch, out_rings, update_queue), is_utf8,
                           size),
               "rs_to_every", is_utf8, <<>>, size)

RsToMulti ==
    /\ MaySend
    /\ \E is_utf8 \in {TRUE}, size \in MultiSizes,
          client_ids \in ClientIdArrays :
          Sent(rs_to_multi(Rs(scratch, out_rings, update_queue), is_utf8,
                           client_ids, size),
               "rs_to_multi", is_utf8, client_ids, size)

RsToEveryExceptSingle ==
    /\ MaySend
    /\ \E is_utf8 \in BOOLEAN, size \in UserSizes, client_id \in MultiIds :
          Sent(rs_to_every_except_single(Rs(scratch, out_rings, update_queue),
                                         is_utf8, client_id, size),
               "rs_to_every_except_single", is_utf8, <<client_id>>, size)

RsToEveryExceptMulti ==
    /\ MaySend
    /\ \E is_utf8 \in {FALSE}, size \in MultiSizes,
          client_ids \in ClientIdArrays :
          Sent(rs_to_every_except_multi(Rs(scratch, out_rings, update_queue),
                                        is_utf8, client_ids, size),
               "rs_to_every_except_multi", is_utf8, client_ids, size)

RsToEveryExceptCur ==
    /\ MaySend
    /\ \E is_utf8 \in BOOLEAN, size \in UserSizes :
          Sent(rs_to_every_except_cur(Rs(scratch, out_rings, update_queue),
                                      is_utf8, size),
               "rs_to_every_except_cur", is_utf8, <<>>, size)

\* The workers read their outbound rings up to the flushed writer cursors.
WorkersConsume ==
    /\ ~CallbackIdle
    /\ ~send_call.crashed
    /\ out_rings' = [w \in Workers |-> <<>>]
    /\ update_queue' = <<>>
    /\ send_call' = NoSend
    /\ UNCHANGED <<little_endian, src_worker_thread_i, src_peer_i, scratch,
                   w_call>>
    /\ UNCHANGED notSend

NextSend ==
    \/ InboundMessage
    \/ RsWUint8
    \/ RsWUint64
    \/ RsWUint64Hton
    \/ RsToSingle
    \/ RsToSingleUnknownId
    \/ RsToCur
    \/ RsToEvery
    \/ RsToMulti
    \/ RsToEveryExceptSingle
    \/ RsToEveryExceptMulti
    \/ RsToEveryExceptCur
    \/ WorkersConsume

\* ------------------------------------------------------------------------
\* SpecRing: one outbound ring between its producer and its consumer.
\* rs_init_rings sets the ring up; reserving, wrapping, growing and consuming
\* are the SPSC ring of the design (sections 4.1 and 4.2).
\* ------------------------------------------------------------------------
\* conf->realloc_multiplier, copied to out_ring->alloc_multiplier.
AllocMultiplier == 2

RingBufIds == 0..MaxGrow
\* Where the allocator may put a buffer: slots of the address space, in
\* ascending address order. The first buffer is in the middle one, a later
\* buffer in any free one, below or above.
RingSlots == 0..(MaxGrow + MaxGrow)
FirstSlot == MaxGrow

\* A cursor: a buffer and an offset from its base.
Cursor(b, off) == [buf |-> b, off |-> off]

\* What is at an offset of a buffer: nothing, a record of n bytes of which
\* the first is the first-th byte the producer wrote, or a sentinel.
NoEntry == [kind |-> "none", n |-> 0, first |-> 0]

\* A buffer fresh from RS_CACHE_ALIGNED_CALLOC.
NewBuf(slot, size) ==
    [slot |-> slot, size |-> size, data |-> [o \in 0..size |-> NoEntry]]
NoBuf == [slot |-> 0, size |-> 0, data |-> [o \in 0..0 |-> NoEntry]]

\* rs_init_rings: the buffer is allocated, writer is its base, and the base
\* is stored to both shared cells.
InitRing ==
    /\ ring_bufs = [b \in RingBufIds |->
                       IF b = 0 THEN NewBuf(FirstSlot, RingBufSize) ELSE NoBuf]
    /\ out_ring = [buf |-> 0, writer |-> 0, growths |-> 0]
    /\ io_pair = [writer |-> Cursor(0, 0), reader |-> Cursor(0, 0)]
    /\ ring_reader = Cursor(0, 0)
    /\ ring_count = [produced |-> 0, published |-> 0, consumed |-> 0,
                     wjumps |-> 0, pjumps |-> 0, rjumps |-> 0,
                     observed |-> <<>>]

\* The published reader is in the producer's buffer, ahead of its writer: the
\* producer has wrapped and the consumer has not yet.
ReaderAhead ==
    /\ io_pair.reader.buf = out_ring.buf
    /\ io_pair.reader.off > out_ring.writer

\* n contiguous bytes fit at writer.
Fits(n) ==
    IF ReaderAhead
    THEN out_ring.writer + n < io_pair.reader.off
    ELSE out_ring.writer + n <= ring_bufs[out_ring.buf].size

\* The test for room by wrapping left out.
MayWrap_NoRoomCheck(n) ==
    /\ ~ReaderAhead
    /\ io_pair.reader.buf = out_ring.buf

\* There is room by wrapping: the reader has advanced past n bytes from the
\* base.
MayWrap(n) ==
    /\ ~ReaderAhead
    /\ io_pair.reader.buf = out_ring.buf
    /\ io_pair.reader.off > n

\* The record of the next n bytes the producer writes: the bytes are numbered
\* in the order the producer writes them.
Rec(n) == [kind |-> "rec", n |-> n, first |-> ring_count.produced + 1]

\* The bytes of a record.
BytesOf(e) == [j \in 1..e.n |-> e.first + j - 1]

Produced(n, jumped) ==
    ring_count' = [ring_count EXCEPT !.produced = @ + n,
                                     !.wjumps = @ + (IF jumped THEN 1 ELSE 0)]

\* Reserve n bytes at writer and write a record into them.
RingWrite ==
    /\ \E n \in 1..MaxRec :
          /\ ring_count.produced + n <= MaxProduced
          /\ Fits(n)
          /\ ring_bufs' = [ring_bufs EXCEPT
                ![out_ring.buf].data[out_ring.writer] = Rec(n)]
          /\ out_ring' = [out_ring EXCEPT !.writer = @ + n]
          /\ Produced(n, FALSE)
    /\ UNCHANGED <<io_pair, ring_reader>>
    /\ UNCHANGED notRing

\* The record does not fit at writer but does at the base: leave a wrap
\* sentinel and write it there.
RingWrap ==
    /\ \E n \in 1..MaxRec :
          /\ ring_count.produced + n <= MaxProduced
          /\ ~Fits(n)
          /\ MayWrap(n)
          /\ ring_bufs' = [ring_bufs EXCEPT
                ![out_ring.buf].data =
                    [o \in DOMAIN @ |->
                        IF o = 0 THEN Rec(n)
                        ELSE IF o = out_ring.writer
                        THEN [kind |-> "wrap", n |-> 0, first |-> 0]
                        ELSE @[o]]]
          /\ out_ring' = [out_ring EXCEPT !.writer = n]
          /\ Produced(n, TRUE)
    /\ UNCHANGED <<io_pair, ring_reader>>
    /\ UNCHANGED notRing

\* Neither way has room: allocate a buffer of
\* alloc_multiplier x (current size + n), leave a forwarding sentinel at
\* writer and write the record at the new base.
RingGrow ==
    /\ out_ring.growths < MaxGrow
    /\ \E n \in 1..MaxRec :
          /\ ring_count.produced + n <= MaxProduced
          /\ ~Fits(n)
          /\ ~MayWrap(n)
          /\ \E slot \in RingSlots \ {ring_bufs[b].slot : b \in 0..out_ring.buf} :
                LET new == out_ring.buf + 1
                    size == AllocMultiplier
                              * (ring_bufs[out_ring.buf].size + n)
                IN  /\ ring_bufs' = [ring_bufs EXCEPT
                          ![out_ring.buf].data[out_ring.writer] =
                              [kind |-> "fwd", n |-> new, first |-> 0],
                          ![new] = [NewBuf(slot, size) EXCEPT
                                       !.data[0] = Rec(n)]]
                    /\ out_ring' = [buf |-> new, writer |-> n,
                                    growths |-> out_ring.growths + 1]
          /\ Produced(n, TRUE)
    /\ UNCHANGED <<io_pair, ring_reader>>
    /\ UNCHANGED notRing

\* The flush of the ring update: store the writer cursor to the shared cell.
RingPublish ==
    /\ io_pair.writer # Cursor(out_ring.buf, out_ring.writer)
    /\ io_pair' = [io_pair EXCEPT
                      !.writer = Cursor(out_ring.buf, out_ring.writer)]
    /\ ring_count' = [ring_count EXCEPT !.published = ring_count.produced,
                                        !.pjumps = ring_count.wjumps]
    /\ UNCHANGED <<out_ring, ring_bufs, ring_reader>>
    /\ UNCHANGED notRing

\* A consumer that reads up to the producer's own writer, published or not.
ReadableUpTo_Unpublished == Cursor(out_ring.buf, out_ring.writer)

\* The consumer reads up to the latest published writer.
ReadableUpTo == io_pair.writer

\* The consumer takes what is at its reader, a record or a sentinel, and
\* stores its new reader to the shared cell.
RingConsume ==
    /\ ring_reader # ReadableUpTo
    /\ LET e == ring_bufs[ring_reader.buf].data[ring_reader.off]
           next == IF e.kind = "wrap" THEN Cursor(ring_reader.buf, 0)
                   ELSE IF e.kind = "fwd" THEN Cursor(e.n, 0)
                   ELSE Cursor(ring_reader.buf, ring_reader.off + e.n)
       IN  /\ e.kind # "none"
           /\ ring_reader' = next
           /\ io_pair' = [io_pair EXCEPT !.reader = next]
           /\ ring_count' = [ring_count EXCEPT
                 !.consumed = @ + (IF e.kind = "rec" THEN e.n ELSE 0),
                 !.rjumps = @ + (IF e.kind = "rec" THEN 0 ELSE 1),
                 !.observed = @ \o (IF e.kind = "rec" THEN BytesOf(e)
                                    ELSE <<>>)]
    /\ UNCHANGED <<out_ring, ring_bufs>>
    /\ UNCHANGED notRing

NextRing ==
    \/ RingWrite
    \/ RingWrap
    \/ RingGrow
    \/ RingPublish
    \/ RingConsume

Init == InitTcp /\ InitWake /\ InitSend /\ InitRing

\* rs_tcp.c, the sleep/wake handshake and the ring neither read nor write the
\* byte order of the machine: their specifications start on a little-endian
\* one.
InitOneByteOrder == Init /\ little_endian

SpecTcp == InitOneByteOrder /\ [][NextTcp]_vars

\* The worker's event loop calls handle_tcp_io at every readiness event of a
\* peer at the TCP layer, and the event that reports the end of the stream or
\* a read error is one of them: while a peer is shutting down nothing else
\* acts on its slot, so that call stays enabled until it is made.
SpecTcpFair ==
    /\ InitOneByteOrder
    /\ [][NextTcpShutdownOk]_vars
    /\ WF_vars(HandleTcpIoEndOfStream)

SpecWake == InitOneByteOrder /\ [][NextWake]_vars

SpecSend == Init /\ [][NextSend]_vars

SpecRing == InitOneByteOrder /\ [][NextRing]_vars

\* ------------------------------------------------------------------------
\* The sleep/wake handshake
\* ------------------------------------------------------------------------
\* No wake is on its way: the eventfd's counter is 0, and no producer has an
\* update queued, a flush in progress or a store still to drain.
NoWakePending ==
    /\ eventfd = 0
    /\ \A p \in Producers : ppc[p] = "idle" /\ ~queued[p] /\ sbuf[p] = <<>>

\* C1: no lost wakeups. With the consumer's handshake and the producer's
\* flush as specified, the consumer never stays blocked on its eventfd while
\* a ring it consumes holds published, unread data: it is never blocked with
\* such data in a ring and no wake on its way.
C1_NoLostWakeup ==
    ~ /\ cpc = "blocked"
      /\ NoWakePending
      /\ \E p \in Producers : mem[WriterCell(p)] > reader[p]

\* ------------------------------------------------------------------------
\* The WebSocket header of a record
\* ------------------------------------------------------------------------
\* The header RFC 6455 prescribes for an unmasked, unfragmented message of P
\* payload bytes: the opcode byte, then the length in its shortest encoding.
WsHeaderOf(is_utf8, P) ==
    <<IF is_utf8 THEN 129 ELSE 130>>
        \o (IF P <= 125 THEN <<P>>
            ELSE IF P <= 65535 THEN <<126, P \div 256, P % 256>>
            ELSE <<127, 0, 0, 0, 0, P \div 16777216, (P \div 65536) % 256,
                   (P \div 256) % 256, P % 256>>)

\* C3: for every send with payload size P = scratch_len + user_size
\* (0 <= P <= max_ws_msg_size) the WebSocket header written to the outbound
\* ring is the opcode byte (0x81 text, 0x82 binary) followed by the length
\* encoding selected by P alone: the byte P if P <= 125, 126 and P as a
\* big-endian u16 if P <= 65535, 127 and P as a big-endian u64 otherwise; so
\* 2, 4 or 10 bytes.
C3_WsHeaderByPayloadSize ==
    \A w \in Workers : \A i \in DOMAIN out_rings[w] :
        LET rec == out_rings[w][i]
            P == Len(rec.scratch) + rec.user_size
        IN  /\ rec.ws = WsHeaderOf(send_call.is_utf8, P)
            /\ Len(rec.ws) = (IF P <= 125 THEN 2
                              ELSE IF P <= 65535 THEN 4 ELSE 10)

\* ------------------------------------------------------------------------
\* Reading the record of the last handle_tcp_io invocation
\* ------------------------------------------------------------------------
IsHandle == call.op = "handle_tcp_io"

Did(ev, arg) == \E i \in DOMAIN call.log : call.log[i] = Ev(ev, arg)
DidAny(ev) == \E i \in DOMAIN call.log : call.log[i].ev = ev
Where(ev) == {i \in DOMAIN call.log : call.log[i].ev = ev}

Last(S) == CHOOSE i \in S : \A j \in S : j <= i

\* The peer's mortality just before step i of the invocation.
MortalityBefore(i) ==
    LET S == {j \in Where("mortality") : j < i}
    IN  IF S = {} THEN call.pre.mortality ELSE call.log[Last(S)].arg

\* The peer's mortality when the invocation returned or, if it closed the
\* peer, when it did so.
MortalityAtEnd ==
    IF DidAny("close") THEN MortalityBefore(Last(Where("close")))
                       ELSE MortalityBefore(Len(call.log) + 1)

\* Step i follows step i - 1, which was ev with outcome arg.
Follows(i, ev, arg) == i > 1 /\ call.log[i - 1] = Ev(ev, arg)
\* Step i is followed by the assignment mortality = m.
SetsNext(i, m) == i < Len(call.log) /\ call.log[i + 1] = Ev("mortality", m)

\* The edges of mortality both statements of C4 agree on.
C4_Common ==
    /\ \A i \in Where("shutdown") :
          call.log[i].arg = "ok" <=> SetsNext(i, "SHUTDOWN_READ")
    /\ \A i \in Where("read") :
          /\ call.log[i].arg = "0" => SetsNext(i, "DEAD")
          /\ call.log[i].arg \in {"EAGAIN", "data"}
                => ~(i < Len(call.log) /\ call.log[i + 1].ev = "mortality")
    /\ call.pre.mortality = "LIVE" => ~DidAny("mortality")
    /\ ~slot_free => peer.mortality = MortalityAtEnd

\* C4 as claimed: within handle_tcp_io mortality changes only along
\* SHUTDOWN_WRITE -> SHUTDOWN_READ, exactly when shutdown(SHUT_WR) succeeds,
\* and SHUTDOWN_READ -> DEAD, exactly when read() returns 0; it is never set
\* to DEAD from a read that failed or would block, and not on the LIVE path.
C4_MortalityEdgesAsClaimed ==
    IsHandle =>
        /\ C4_Common
        /\ \A i \in Where("mortality") :
              \/ /\ call.log[i].arg = "SHUTDOWN_READ"
                 /\ MortalityBefore(i) = "SHUTDOWN_WRITE"
                 /\ Follows(i, "shutdown", "ok")
              \/ /\ call.log[i].arg = "DEAD"
                 /\ MortalityBefore(i) = "SHUTDOWN_READ"
                 /\ Follows(i, "read", "0")

\* C4 as amended: the edge SHUTDOWN_READ -> DEAD is taken exactly when the
\* read() that ends the drain returns 0 or fails with an errno other than
\* EAGAIN; a read that would block or that returned data never changes
\* mortality. The other edge and the LIVE path are as claimed.
C4_MortalityEdges ==
    IsHandle =>
        /\ C4_Common
        /\ \A i \in Where("read") :
              call.log[i].arg = "error" => SetsNext(i, "DEAD")
        /\ \A i \in Where("mortality") :
              \/ /\ call.log[i].arg = "SHUTDOWN_READ"
                 /\ MortalityBefore(i) = "SHUTDOWN_WRITE"
                 /\ Follows(i, "shutdown", "ok")
              \/ /\ call.log[i].arg = "DEAD"
                 /\ MortalityBefore(i) = "SHUTDOWN_READ"
                 /\ \/ Follows(i, "read", "0")
                    \/ Follows(i, "read", "error")

\* An invocation entered with SHUTDOWN_WRITE that took both edges, the second
\* after a failed read.
C4_Witness ==
    /\ IsHandle
    /\ call.pre.mortality = "SHUTDOWN_WRITE"
    /\ Did("shutdown", "ok")
    /\ Did("read", "error")
    /\ Did("mortality", "DEAD")

\* C5: entered with SHUTDOWN_WRITE, once shutdown(SHUT_WR) succeeds the drain
\* runs in the same invocation; a drain ending with read() = 0 closes the
\* socket and frees the slot before the return, one ending with EAGAIN
\* returns with mortality SHUTDOWN_READ and the socket open; and
\* shutdown(SHUT_WR) is issued at most once per peer.
C5_FallThrough ==
    /\ shutdown_c <= 1
    /\ (IsHandle /\ call.pre.mortality = "SHUTDOWN_WRITE"
            /\ Did("shutdown", "ok")) =>
          /\ \E i \in Where("read") : Last(Where("shutdown")) < i
          /\ Did("read", "0") =>
                /\ Did("close", "ok") \/ Did("close", "fail")
                /\ DidAny("free_peer_slot")
                /\ sock = "closed"
                /\ slot_free
          /\ Did("read", "EAGAIN") =>
                /\ peer.mortality = "SHUTDOWN_READ"
                /\ ~DidAny("close")
                /\ sock = "shut_wr"
                /\ ~slot_free

\* One invocation that shut down the write side, drained data and saw the
\* end of the stream.
C5_Witness ==
    /\ IsHandle
    /\ call.pre.mortality = "SHUTDOWN_WRITE"
    /\ Did("shutdown", "ok")
    /\ Did("read", "data")
    /\ Did("read", "0")
    /\ slot_free

\* C6: if shutdown(fd, SHUT_WR) fails, handle_tcp_io returns FATAL with
\* mortality still SHUTDOWN_WRITE, and has not read, closed the socket,
\* zeroed the slot or freed it.
C6_ShutdownFailure ==
    (IsHandle /\ Did("shutdown", "fail")) =>
        /\ call.ret = RS_FATAL
        /\ peer.mortality = "SHUTDOWN_WRITE"
        /\ peer = call.pre
        /\ ~DidAny("mortality")
        /\ ~DidAny("read")
        /\ ~DidAny("close")
        /\ ~DidAny("memset")
        /\ ~DidAny("free_peer_slot")
        /\ sock = "open"
        /\ ~slot_free

C6_Witness ==
    /\ IsHandle
    /\ Did("shutdown", "fail")
    /\ fatal

\* C7: a slot is zeroed and freed only in a handle_tcp_io invocation in
\* which mortality is DEAD, after close(fd), in the order close, zero, free,
\* each at most once; an invocation that returns while mortality is LIVE,
\* SHUTDOWN_WRITE or SHUTDOWN_READ has neither closed the socket nor freed
\* the slot.
C7_FreeOnlyWhenDead ==
    /\ (slot_free /\ peers_c > 0) => (IsHandle /\ DidAny("free_peer_slot"))
    /\ (sock = "closed") <=> (slot_free /\ peers_c > 0)
    /\ IsHandle =>
          /\ Cardinality(Where("close")) <= 1
          /\ Cardinality(Where("memset")) <= 1
          /\ Cardinality(Where("free_peer_slot")) <= 1
          /\ (DidAny("close") \/ DidAny("memset") \/ DidAny("free_peer_slot"))
                => /\ DidAny("close")
                   /\ DidAny("memset")
                   /\ DidAny("free_peer_slot")
                   /\ Last(Where("close")) < Last(Where("memset"))
                   /\ Last(Where("memset")) < Last(Where("free_peer_slot"))
                   /\ MortalityBefore(Last(Where("close"))) = "DEAD"
                   /\ slot_free
                   /\ peer = ZeroPeer
          /\ MortalityAtEnd # "DEAD"
                => /\ ~DidAny("close")
                   /\ ~DidAny("memset")
                   /\ ~DidAny("free_peer_slot")
                   /\ sock # "closed"
                   /\ ~slot_free

\* A slot freed by an invocation entered with SHUTDOWN_READ.
C7_Witness ==
    /\ IsHandle
    /\ call.pre.mortality = "SHUTDOWN_READ"
    /\ DidAny("free_peer_slot")
    /\ slot_free

Closed == DidAny("close") /\ slot_free

\* C8 as claimed: handle_tcp_io returns every non-OK result of its callees
\* unchanged, except CLOSE_PEER from the shutdown read step, which it absorbs
\* by closing the peer and returning OK; an AGAIN from the shutdown read step
\* is returned as AGAIN.
C8_PropagationAsClaimed ==
    IsHandle =>
        \A i \in DOMAIN call.callees :
            LET k == call.callees[i]
            IN  k.ret # RS_OK =>
                    IF k.fn = "read_shutdown" /\ k.ret = RS_CLOSE_PEER
                    THEN call.ret = RS_OK /\ Closed
                    ELSE call.ret = k.ret

\* C8 as amended: the shutdown read step has two absorbed results, CLOSE_PEER
\* (the peer is closed, OK is returned) and AGAIN (OK is returned, the peer
\* stays open with its slot); every other non-OK result of a callee is
\* returned unchanged.
C8_Propagation ==
    IsHandle =>
        \A i \in DOMAIN call.callees :
            LET k == call.callees[i]
            IN  k.ret # RS_OK =>
                    IF k.fn = "read_shutdown" /\ k.ret = RS_CLOSE_PEER
                    THEN call.ret = RS_OK /\ Closed
                    ELSE IF k.fn = "read_shutdown" /\ k.ret = RS_AGAIN
                    THEN call.ret = RS_OK /\ ~DidAny("close") /\ ~slot_free
                    ELSE call.ret = k.ret

\* The drain would block, and the invocation returned OK.
C8_Witness ==
    /\ IsHandle
    /\ \E i \in DOMAIN call.callees :
          call.callees[i] = Callee("read_shutdown", RS_AGAIN)
    /\ call.ret = RS_OK

\* C9: read_tcp maps read()'s result: n > 0 to OK with *rsize = n; 0 to
\* CLOSE_PEER; EAGAIN to AGAIN with is_writing cleared; any other failure to
\* CLOSE_PEER; *rsize = 0 in the last three. Mortality, layer and old_wsize
\* are left alone, and is_writing changes only in the EAGAIN case.
C9_ReadTcp ==
    call.op = "read_tcp" =>
        LET r == call.sys
        IN  /\ r.ret > 0 => call.ret = RS_OK /\ call.rsize = r.ret
            /\ r.ret = 0 => call.ret = RS_CLOSE_PEER /\ call.rsize = 0
            /\ (r.ret < 0 /\ r.errno = EAGAIN)
                  => /\ call.ret = RS_AGAIN
                     /\ call.rsize = 0
                     /\ peer.is_writing = FALSE
            /\ (r.ret < 0 /\ r.errno # EAGAIN)
                  => call.ret = RS_CLOSE_PEER /\ call.rsize = 0
            /\ ~(r.ret < 0 /\ r.errno = EAGAIN)
                  => peer.is_writing = call.pre.is_writing
            /\ peer.mortality = call.pre.mortality
            /\ peer.layer = call.pre.layer
            /\ peer.old_wsize = call.pre.old_wsize

\* A read that failed with another errno while a partial write was pending.
C9_Witness ==
    /\ call.op = "read_tcp"
    /\ call.sys.ret < 0
    /\ call.sys.errno # EAGAIN
    /\ call.pre.is_writing
    /\ call.pre.old_wsize > 0

\* C2: over the write_tcp calls for one message, with the same buffer and
\* size, the bytes the socket accepted are buffer[0..k) in order, old_wsize
\* is k on every AGAIN return, and OK is returned exactly on the call at
\* which k reaches size, old_wsize being reset to 0 then.
C2_WriteResumes ==
    LET k == Len(wire)
    IN  /\ k <= Len(wbuf)
        /\ wire = SubSeq(wbuf, 1, k)
        /\ call.op = "write_tcp" =>
              /\ call.ret = RS_AGAIN => peer.old_wsize = k
              /\ call.ret = RS_OK <=> (k = Len(wbuf) /\ k - call.wsize < Len(wbuf))
              /\ call.ret = RS_OK => peer.old_wsize = 0

\* The call that completed a message after two partial writes and a
\* would-block result.
C2_Witness ==
    /\ call.op = "write_tcp"
    /\ call.ret = RS_OK
    /\ Len(wbuf) = MaxLen
    /\ call.wsize = 1
    /\ call.pre.old_wsize = MaxLen - 1
    /\ wbuf[1] # wbuf[2]

\* C10 as claimed: after write_tcp calls that retry each message with the
\* same buffer and size, whenever is_writing is true old_wsize is strictly
\* less than the size of the message being written, messages of size 0 and
\* calls on which write() accepts 0 bytes included.
C10_OldWsizeBelowSize ==
    (call.op = "write_tcp" /\ peer.is_writing) => peer.old_wsize < Len(wbuf)

\* C11 as claimed: write_tcp returns AGAIN only when write() failed with
\* EAGAIN or when unwritten bytes remain after a partial write; when write()
\* fails with any other errno it returns CLOSE_PEER and leaves is_writing and
\* old_wsize as they were.
C11_AgainOnlyWhenWouldBlock ==
    call.op = "write_tcp" =>
        /\ call.ret = RS_AGAIN =>
              \/ call.sys.ret = -1 /\ call.sys.errno = EAGAIN
              \/ /\ call.sys.ret > 0
                 /\ call.sys.ret < Len(wbuf) - call.pre.old_wsize
        /\ (call.sys.ret = -1 /\ call.sys.errno # EAGAIN) =>
              /\ call.ret = RS_CLOSE_PEER
              /\ peer.is_writing = call.pre.is_writing
              /\ peer.old_wsize = call.pre.old_wsize

\* ------------------------------------------------------------------------
\* The sends of one primitive call. send_call describes the last call until
\* the workers have read what it wrote; the rings were empty before it.
\* ------------------------------------------------------------------------
PayloadSize == send_call.scratch_len + send_call.size
Oversize == PayloadSize > MaxWsMsgSize
RingsEmpty == \A w \in Workers : out_rings[w] = <<>>

\* C12 as claimed: a send whose scratch_len + user_size equals
\* max_ws_msg_size succeeds, writing its record and enqueueing one ring
\* update; a send that exceeds max_ws_msg_size yields FATAL to its caller
\* without reserving ring space, moving a writer cursor or enqueueing a ring
\* update.
C12_OversizeYieldsFatal ==
    send_call.op \in {"rs_to_single", "rs_to_cur"} =>
        /\ PayloadSize = MaxWsMsgSize =>
              /\ \E w \in Workers :
                    /\ Len(out_rings[w]) = 1
                    /\ update_queue = <<w>>
                    /\ \A v \in Workers \ {w} : out_rings[v] = <<>>
              /\ send_call.rets = <<RS_OK>>
        /\ Oversize =>
              /\ send_call.ret = <<RS_FATAL>>
              /\ RingsEmpty
              /\ update_queue = <<>>

\* What of C12 the code does: the edge at max_ws_msg_size and the absence of
\* any ring write or ring update on the oversize path, on which every rs_send
\* call reaches its `return RS_FATAL`.
OversizePathOfSend ==
    send_call.op \in {"rs_to_single", "rs_to_cur"} =>
        /\ PayloadSize = MaxWsMsgSize =>
              /\ \E w \in Workers :
                    /\ Len(out_rings[w]) = 1
                    /\ update_queue = <<w>>
                    /\ \A v \in Workers \ {w} : out_rings[v] = <<>>
              /\ send_call.rets = <<RS_OK>>
        /\ Oversize =>
              /\ send_call.rets = <<RS_FATAL>>
              /\ RingsEmpty
              /\ update_queue = <<>>

\* C13 as claimed: when a send primitive fails with FATAL because the
\* message is oversize, the scratch buffer is not reset: the scratch length
\* after the call equals the scratch length before the call.
C13_ScratchKeptOnOversize ==
    (send_call.op # "none" /\ Oversize) =>
        Len(send_call.scratch_after) = send_call.scratch_len

\* ------------------------------------------------------------------------
\* Routing: which worker gets which record
\* ------------------------------------------------------------------------
\* The worker and the peer a client id was made for by rs_get_client_id.
BelongsTo(cid, w) == \E q \in PeerIs : cid = rs_get_client_id(w, q)
PeerOf(cid) ==
    CHOOSE q \in PeerIs : \E w \in 0..WorkerC : cid = rs_get_client_id(w, q)

\* Of the ids in cids, in their order, those of worker w, and their peers.
IdsOf(cids, w) == SelectSeq(cids, LAMBDA c : BelongsTo(c, w))
PeersOf(cids, w) == [j \in 1..Len(IdsOf(cids, w)) |-> PeerOf(IdsOf(cids, w)[j])]

\* C14: rs_to_multi partitions its client ids by worker: for every worker
\* i < worker_c, if k >= 1 of the given ids belong to worker i then exactly
\* one record is written to worker i's ring, SINGLE when k = 1 and ARRAY with
\* count k when k > 1, whose recipients are the peer halves of those k ids in
\* input order; if k = 0 nothing is written to worker i's ring. Ids of no
\* worker below worker_c appear in no record.
C14_MultiPartitions ==
    (send_call.op = "rs_to_multi" /\ ~Oversize) =>
        \A i \in Workers :
            LET k == Len(IdsOf(send_call.cids, i))
            IN  IF k = 0
                THEN out_rings[i] = <<>>
                ELSE /\ Len(out_rings[i]) = 1
                     /\ out_rings[i][1].kind =
                            (IF k = 1 THEN "SINGLE" ELSE "ARRAY")
                     /\ out_rings[i][1].count =
                            (IF k = 1 THEN <<>> ELSE <<k>>)
                     /\ out_rings[i][1].recipients =
                            PeersOf(send_call.cids, i)

\* An rs_to_multi call that wrote an ARRAY record for two different peers of
\* one worker, the higher peer given first, and nothing for another worker.
C14_Witness ==
    /\ send_call.op = "rs_to_multi"
    /\ \E i \in Workers :
          /\ Len(out_rings[i]) = 1
          /\ out_rings[i][1].kind = "ARRAY"
          /\ out_rings[i][1].recipients = <<1, 0>>
          /\ \E v \in Workers \ {i} : out_rings[v] = <<>>

\* The excluded ids of the broadcast primitives.
Excluded ==
    IF send_call.op = "rs_to_every_except_cur"
    THEN <<rs_get_client_id(send_call.src_worker, send_call.src_peer)>>
    ELSE send_call.cids

Broadcasts ==
    {"rs_to_every", "rs_to_every_except_single", "rs_to_every_except_cur",
     "rs_to_every_except_multi"}

\* C15: each broadcast primitive (rs_to_every, rs_to_every_except_single,
\* rs_to_every_except_cur, rs_to_every_except_multi) writes exactly one
\* record to the ring of every worker 0..worker_c-1, of the kind determined
\* by the number e of excluded ids (counted per entry given) that belong to
\* that worker: EVERY with no recipients if e = 0, EVERY_EXCEPT_SINGLE with
\* that one peer if e = 1, EVERY_EXCEPT_ARRAY with count e and those peers if
\* e > 1.
C15_BroadcastKinds ==
    (send_call.op \in Broadcasts /\ ~Oversize) =>
        \A i \in Workers :
            LET e == Len(IdsOf(Excluded, i))
            IN  /\ Len(out_rings[i]) = 1
                /\ out_rings[i][1].kind =
                       (IF e = 0 THEN "EVERY"
                        ELSE IF e = 1 THEN "EVERY_EXCEPT_SINGLE"
                        ELSE "EVERY_EXCEPT_ARRAY")
                /\ out_rings[i][1].count = (IF e > 1 THEN <<e>> ELSE <<>>)
                /\ out_rings[i][1].recipients = PeersOf(Excluded, i)

\* An rs_to_every_except_multi call that excluded two different peers of one
\* worker and none of another.
C15_Witness ==
    /\ send_call.op = "rs_to_every_except_multi"
    /\ \E i \in Workers :
          /\ Len(out_rings[i]) = 1
          /\ out_rings[i][1].kind = "EVERY_EXCEPT_ARRAY"
          /\ out_rings[i][1].recipients = <<1, 0>>
          /\ \E v \in Workers \ {i} :
                /\ Len(out_rings[v]) = 1
                /\ out_rings[v][1].kind = "EVERY"

\* C16: after a send primitive returns from a successful send the scratch
\* length is 0, and the reset comes after the last per-worker record of the
\* call: every record the call wrote carries the same payload, the complete
\* scratch bytes followed by the user bytes.
C16_ScratchResetAfterRecords ==
    (send_call.op # "none" /\ ~Oversize /\ ~send_call.crashed) =>
        /\ send_call.scratch_after = <<>>
        /\ \A w \in Workers : \A i \in DOMAIN out_rings[w] :
              /\ out_rings[w][i].scratch = send_call.scratch
              /\ out_rings[w][i].user_size = send_call.size

\* A broadcast of two different scratch bytes and user bytes that wrote a
\* record for every worker.
C16_Witness ==
    /\ send_call.op = "rs_to_every_except_cur"
    /\ Len(send_call.scratch) = MaxScratch
    /\ send_call.scratch[1] # send_call.scratch[2]
    /\ send_call.size > 0
    /\ send_call.scratch_after = <<>>
    /\ \A w \in Workers : Len(out_rings[w]) = 1

\* ------------------------------------------------------------------------
\* Client ids
\* ------------------------------------------------------------------------
\* Values of a uint32_t, small and large.
U32Samples == {0, 1, 255, 65536, 2147483647}

\* The rings an rs_to_cur call would have left in place of the last call.
AsToCur ==
    rs_to_cur(Rs(send_call.scratch, [w \in Workers |-> <<>>], <<>>),
              send_call.is_utf8, send_call.size)

\* C17: the id rs_get_client_id returns for (worker_i, peer_i) is unpacked by
\* rs_to_single to the same pair, for every worker_i and peer_i, so that
\* rs_to_single(rs_get_client_id()) writes the record rs_to_cur() writes, to
\* the same ring: kind SINGLE, ring worker_i, recipient peer_i.
C17_ClientIdRoundTrip ==
    /\ \A w \in U32Samples, q \in U32Samples :
          WordsOfU64(rs_get_client_id(w, q)) = <<w, q>>
    /\ (/\ send_call.op = "rs_to_single"
        /\ send_call.cids =
              <<rs_get_client_id(src_worker_thread_i, src_peer_i)>>) =>
          /\ out_rings = AsToCur.out_rings
          /\ update_queue = AsToCur.update_queue
          /\ ~Oversize =>
                /\ Len(out_rings[src_worker_thread_i]) = 1
                /\ out_rings[src_worker_thread_i][1].kind = "SINGLE"
                /\ out_rings[src_worker_thread_i][1].recipients =
                       <<src_peer_i>>
                /\ \A v \in Workers \ {src_worker_thread_i} :
                       out_rings[v] = <<>>

\* rs_to_single called with the id of the current peer, peer 0 of worker 1.
C17_Witness ==
    /\ send_call.op = "rs_to_single"
    /\ src_worker_thread_i = 1
    /\ src_peer_i = 0
    /\ send_call.cids = <<rs_get_client_id(1, 0)>>
    /\ Len(out_rings[1]) = 1
    /\ out_rings[1][1].recipients = <<0>>

\* C18 as claimed: with the client id taken as a 64-bit unsigned integer,
\* rs_to_single(cid) writes its record to the ring of worker hi32(cid) with
\* recipient lo32(cid), and rs_get_client_id returns
\* worker_i * 2^32 + peer_i.
C18_WorkerIsHi32 ==
    /\ \A w \in U32Samples, q \in U32Samples :
          rs_get_client_id(w, q) = [hi |-> w, lo |-> q]
    /\ (send_call.op = "rs_to_single" /\ ~Oversize) =>
          LET cid == send_call.cids[1]
          IN  /\ cid.hi \in Workers
              /\ Len(out_rings[cid.hi]) = 1
              /\ out_rings[cid.hi][1].recipients = <<cid.lo>>

\* C18, amended: on a big-endian machine the worker is hi32(cid) and the peer
\* lo32(cid), and rs_get_client_id returns worker_i * 2^32 + peer_i; on a
\* little-endian machine the worker is lo32(cid) and the peer hi32(cid), and
\* rs_get_client_id returns peer_i * 2^32 + worker_i. The record is written
\* to that worker's ring when the id is the id of a peer of this process.
C18_WorkerIsFirstWord ==
    /\ \A w \in U32Samples, q \in U32Samples :
          rs_get_client_id(w, q) =
              (IF little_endian THEN [hi |-> q, lo |-> w]
               ELSE [hi |-> w, lo |-> q])
    /\ (/\ send_call.op = "rs_to_single"
        /\ ~Oversize
        /\ send_call.cids[1] \in ClientIds) =>
          LET cid == send_call.cids[1]
              worker == IF little_endian THEN cid.lo ELSE cid.hi
              recipient == IF little_endian THEN cid.hi ELSE cid.lo
          IN  /\ worker \in Workers
              /\ Len(out_rings[worker]) = 1
              /\ out_rings[worker][1].kind = "SINGLE"
              /\ out_rings[worker][1].recipients = <<recipient>>
              /\ \A v \in Workers \ {worker} : out_rings[v] = <<>>

\* On a little-endian machine, rs_to_single with an id whose halves differ.
C18_Witness ==
    /\ little_endian
    /\ send_call.op = "rs_to_single"
    /\ send_call.cids = <<[hi |-> 0, lo |-> 1]>>
    /\ Len(out_rings[1]) = 1
    /\ out_rings[1][1].recipients = <<0>>

\* C19 as claimed: for every send the number of bytes written into the ring
\* (kind byte, optional u32 count, u32 recipient ids, WebSocket header,
\* payload) equals the size reserved from the ring before writing, which is
\* payload_size + WebSocket header length (2, 4 or 10) + 1
\* + 4 x recipient_c, plus 4 when a count is written; the writer cursor never
\* advances past the end of the reserved region.
C19_WrittenWithinReserved ==
    \A w \in Workers : \A i \in DOMAIN out_rings[w] :
        LET rec == out_rings[w][i]
            P == Len(rec.scratch) + rec.user_size
        IN  /\ rec.written = rec.reserved
            /\ rec.reserved = P + ws_header_size(P) + 1
                                + 4 * Len(rec.recipients) + 4 * Len(rec.count)

\* ------------------------------------------------------------------------
\* The cursors of a ring
\* ------------------------------------------------------------------------
\* The cursors as addresses: a is at or below b.
AddrLeq(a, b) ==
    \/ ring_bufs[a.buf].slot < ring_bufs[b.buf].slot
    \/ ring_bufs[a.buf].slot = ring_bufs[b.buf].slot /\ a.off <= b.off

RingStartsEmpty ==
    ring_count.produced = 0 =>
        /\ io_pair.writer = Cursor(0, 0)
        /\ io_pair.reader = Cursor(0, 0)

BigEndianOf(v) == [j \in 1..8 |-> v[9 - j]]

\* C22 as claimed: for every 64-bit value v, rs_w_uint64(v) appends to the
\* scratch buffer 8 bytes holding v in host byte order and
\* rs_w_uint64_hton(v) appends the 8-byte big-endian representation of v,
\* each growing the scratch length by exactly 8; no bit of v is lost.
C22_Uint64Written ==
    /\ w_call.op = "rs_w_uint64" =>
          scratch = w_call.scratch
                      \o (IF little_endian THEN w_call.u64
                          ELSE BigEndianOf(w_call.u64))
    /\ w_call.op = "rs_w_uint64_hton" =>
          scratch = w_call.scratch \o BigEndianOf(w_call.u64)
    /\ w_call.op # "none" => Len(scratch) = Len(w_call.scratch) + 8

\* ------------------------------------------------------------------------
\* The bidirectional shutdown ends
\* ------------------------------------------------------------------------
SlotClosedAndFreed ==
    /\ slot_free
    /\ sock = "closed"
    /\ peer = ZeroPeer

\* C23: with handle_tcp_io invoked at every readiness event, shutdown(SHUT_WR)
\* not failing and the socket eventually reporting end-of-stream or a read
\* error, every peer whose mortality is SHUTDOWN_WRITE or SHUTDOWN_READ
\* eventually has its socket closed and its slot zeroed and freed.
C23_ShutdownEndsInClose == ShuttingDown ~> SlotClosedAndFreed

\* A peer that waited in SHUTDOWN_READ (a drain that ended in EAGAIN) was
\* closed and freed by a later handle_tcp_io.
C23_Witness ==
    /\ SlotClosedAndFreed
    /\ call.op = "handle_tcp_io"
    /\ call.pre.mortality = "SHUTDOWN_READ"
    /\ call.ret = RS_OK

\* ------------------------------------------------------------------------
\* is_writing and the last call that returned AGAIN
\* ------------------------------------------------------------------------
\* C24: after any sequence of read_tcp, write_tcp and
\* read_bidirectional_tcp_shutdown calls on a peer in which at least one
\* call returned AGAIN, is_writing is true if and only if the most recent
\* call that returned AGAIN was write_tcp; calls that return OK or CLOSE_PEER
\* never change is_writing.
C24_IsWritingIsLastAgain ==
    /\ (~slot_free /\ last_again # "none")
          => (peer.is_writing <=> last_again = "write_tcp")
    /\ (call.op \in {"read_tcp", "write_tcp"}
            /\ call.ret \in {RS_OK, RS_CLOSE_PEER})
          => peer.is_writing = call.pre.is_writing
    /\ call.op = "handle_tcp_io" =>
          \A i \in DOMAIN call.callees :
              (call.callees[i].fn = "read_shutdown"
                  /\ call.callees[i].ret \in {RS_OK, RS_CLOSE_PEER})
                => call.is_writing[i] = IF i = 1 THEN call.pre.is_writing
                                        ELSE call.is_writing[i - 1]

\* The drain of a peer whose write was pending ended in EAGAIN: the flag
\* that write_tcp had set is cleared.
C24_Witness ==
    /\ ~slot_free
    /\ last_again = "read_shutdown"
    /\ call.op = "handle_tcp_io"
    /\ call.pre.is_writing
    /\ ~peer.is_writing

\* ------------------------------------------------------------------------
\* The worker index of every ring access
\* ------------------------------------------------------------------------
\* C25 as claimed: every ring access made by a send primitive uses a worker
\* index below worker_c: for any client-id arguments, including ids whose
\* worker half is >= worker_c, no primitive reserves from, writes to or
\* enqueues an update for outbound_rings[i] or io_pairs[i] with i >= worker_c.
C25_RingIndexBelowWorkerC ==
    /\ \A j \in DOMAIN send_call.accessed : send_call.accessed[j] < WorkerC
    /\ \A j \in DOMAIN update_queue : update_queue[j] < WorkerC

====
